---- MODULE Spec2Model ----
(***************************************************************************)
(* Model of CentralSchemaResolver (src/src/lib.rs): the ROS 2 .msg type    *)
(* reference parser (strip_array_suffix, is_builtin_type,                  *)
(* resolve_custom_type) and the flattening engine (resolve, flatten,       *)
(* flatten_inner, generate_all_raw, generate_all_flattened).               *)
(*                                                                         *)
(* Rust &str / String values are TLA+ strings; a character is a string of  *)
(* length 1 and s[i..j] is SubSeq.  Rust byte offsets are 0-based, the     *)
(* positions used here are 1-based.                                        *)
(***************************************************************************)
EXTENDS Naturals, Sequences, FiniteSets, TLC

VARIABLES
    \* ---- type reference parser, exercised on its own (SpecTok) ----
    raw,        \* the raw type token handed to the parser
    curType,    \* fully-qualified name of the message enclosing the token
    tokCall,    \* which parser function has been applied ("none" before)
    stripped,   \* result of strip_array_suffix(raw)
    builtin,    \* result of is_builtin_type(raw)
    custom,     \* result of resolve_custom_type(raw, current_package)
    \* ---- flattening engine (Spec) ----
    index,      \* resolved_map with the content of every registered file
    pc,         \* "idle" | "flatten" | "done": position of the running call
    mode,       \* "single": flatten(root); "all": generate_all_flattened;
                \* "raw": generate_all_raw
    root,       \* root_type of the running flatten call
    stack,      \* call stack of flatten_inner: frames [cur, lines, i]
    visited,    \* the HashSet of flatten
    flat,       \* the Vec<String> of blocks of flatten
    order,      \* history: the type of each block of flat, in push order
    result,     \* Result<String> of the last flatten / resolve call
    keysLeft,   \* keys generate_all_* has still to visit, in BTreeMap order
    out,        \* the BTreeMap generate_all_* is building
    bulk,       \* Result<BTreeMap> of generate_all_*
    last        \* history: the last field line examined by flatten_inner

tokVars == <<raw, curType, tokCall, stripped, builtin, custom>>
flatVars == <<index, pc, mode, root, stack, visited, flat, order, result,
              keysLeft, out, bulk, last>>
vars == <<raw, curType, tokCall, stripped, builtin, custom,
          index, pc, mode, root, stack, visited, flat, order, result,
          keysLeft, out, bulk, last>>

(***************************************************************************)
(* Bounds of the model.                                                    *)
(***************************************************************************)
\* longest token generated exhaustively over TokAlphabet
MaxTokLen == 4
\* most array suffixes appended to a base type name
MaxSuffixes == 2

(***************************************************************************)
(* String primitives of the Rust standard library used by the code.        *)
(***************************************************************************)
Char(s, i) == SubSeq(s, i, i)

\* char::is_ascii_digit
IsDigit(c) == c \in {"0", "1", "2", "3", "4", "5", "6", "7", "8", "9"}

\* s.chars().all(|c| c.is_ascii_digit()): true of the empty string
AllDigits(s) == \A i \in 1..Len(s) : IsDigit(Char(s, i))

\* char::is_whitespace, on the characters that occur in schema texts
IsWhite(c) == c \in {" ", "\t", "\n", "\r"}

\* str::starts_with / str::ends_with / str::strip_prefix
StartsWith(s, p) == Len(p) <= Len(s) /\ SubSeq(s, 1, Len(p)) = p
EndsWith(s, p) == Len(p) <= Len(s) /\ SubSeq(s, Len(s) - Len(p) + 1, Len(s)) = p
AfterPrefix(s, p) == SubSeq(s, Len(p) + 1, Len(s))

\* whether p occurs in s at position i
OccursAt(s, p, i) == i + Len(p) - 1 <= Len(s) /\ SubSeq(s, i, i + Len(p) - 1) = p

\* str::contains
Contains(s, p) == \E i \in 1..(Len(s) + 1) : OccursAt(s, p, i)

\* str::rfind(char): position of the last occurrence, 0 for None
RECURSIVE RFindFrom(_, _, _)
RFindFrom(s, c, i) ==
    IF i = 0 THEN 0 ELSE IF Char(s, i) = c THEN i ELSE RFindFrom(s, c, i - 1)
RFind(s, c) == RFindFrom(s, c, Len(s))

\* str::find(pattern): position of the first occurrence, 0 for None
RECURSIVE FindFrom(_, _, _)
FindFrom(s, p, i) ==
    IF i + Len(p) - 1 > Len(s) THEN 0
    ELSE IF OccursAt(s, p, i) THEN i
    ELSE FindFrom(s, p, i + 1)
Find(s, p) == FindFrom(s, p, 1)

\* str::trim
\* position of the first non-whitespace character from i on, Len(s) + 1 if none
RECURSIVE SkipWhite(_, _)
SkipWhite(s, i) ==
    IF i <= Len(s) /\ IsWhite(Char(s, i)) THEN SkipWhite(s, i + 1) ELSE i
\* position of the last non-whitespace character up to i, 0 if none
RECURSIVE SkipWhiteBack(_, _)
SkipWhiteBack(s, i) ==
    IF i >= 1 /\ IsWhite(Char(s, i)) THEN SkipWhiteBack(s, i - 1) ELSE i
\* position of the first whitespace character from i on, Len(s) + 1 if none
RECURSIVE SkipBlack(_, _)
SkipBlack(s, i) ==
    IF i <= Len(s) /\ ~IsWhite(Char(s, i)) THEN SkipBlack(s, i + 1) ELSE i
TrimStart(s) == SubSeq(s, SkipWhite(s, 1), Len(s))
TrimEnd(s) == SubSeq(s, 1, SkipWhiteBack(s, Len(s)))
Trim(s) == TrimEnd(TrimStart(s))

\* str::split(sep).collect::<Vec<_>>(): always at least one segment
RECURSIVE Split(_, _)
Split(s, sep) ==
    LET k == Find(s, sep)
    IN  IF k = 0 THEN <<s>>
        ELSE <<SubSeq(s, 1, k - 1)>> \o Split(SubSeq(s, k + Len(sep), Len(s)), sep)

\* str::replace(from, to): non-overlapping matches, left to right
RECURSIVE Replace(_, _, _)
Replace(s, from, to) ==
    LET k == Find(s, from)
    IN  IF k = 0 THEN s
        ELSE SubSeq(s, 1, k - 1) \o to
             \o Replace(SubSeq(s, k + Len(from), Len(s)), from, to)

\* str::split_whitespace().collect::<Vec<_>>(): no empty parts
RECURSIVE SplitWhitespace(_)
SplitWhitespace(s) ==
    LET b == SkipWhite(s, 1)
        e == SkipBlack(s, b)
    IN  IF b > Len(s) THEN <<>>
        ELSE <<SubSeq(s, b, e - 1)>> \o SplitWhitespace(SubSeq(s, e, Len(s)))

\* str::lines(): split at "\n", a final line ending is not followed by an
\* empty line, and a "\r" before the "\n" belongs to the line ending
StripCR(l) == IF EndsWith(l, "\r") THEN SubSeq(l, 1, Len(l) - 1) ELSE l
RECURSIVE Lines(_)
Lines(s) ==
    LET k == Find(s, "\n")
    IN  IF s = "" THEN <<>>
        ELSE IF k = 0 THEN <<s>>
        ELSE <<StripCR(SubSeq(s, 1, k - 1))>> \o Lines(SubSeq(s, k + 1, Len(s)))

\* Option<String>
None == [some |-> FALSE, val |-> ""]
Some(v) == [some |-> TRUE, val |-> v]

(***************************************************************************)
(* Type reference parser.                                                  *)
(***************************************************************************)
\* The test of one trailing bracket in strip_array_suffix (lines 273-277).
SuffixOk(inner) ==
    \/ inner = ""
    \/ AllDigits(inner)
    \/ StartsWith(inner, "<=") /\ AllDigits(Trim(AfterPrefix(inner, "<=")))

RECURSIVE strip_array_suffix(_)
strip_array_suffix(s) ==
    LET lb == RFind(s, "[")
    IN  IF lb = 0 THEN s                               \* rfind gave None
        ELSE IF ~EndsWith(s, "]") \/ lb = 1 THEN s     \* lb == 0 in the code
        ELSE IF SuffixOk(Trim(SubSeq(s, lb + 1, Len(s) - 1)))
             THEN strip_array_suffix(SubSeq(s, 1, lb - 1))
             ELSE s

Primitives ==
    {"bool", "byte", "char", "int8", "uint8", "int16", "uint16", "int32",
     "uint32", "int64", "uint64", "float32", "float64", "string", "wstring"}

\* The remainder test of a bounded string (lines 154-156 and 159-161).
BoundOk(rest) ==
    rest = "" \/ (StartsWith(rest, "<=") /\ AllDigits(AfterPrefix(rest, "<=")))

is_builtin_type(r) ==
    LET base == strip_array_suffix(r)
    IN  IF base \in Primitives THEN TRUE
        ELSE IF StartsWith(base, "string") THEN BoundOk(AfterPrefix(base, "string"))
        ELSE IF StartsWith(base, "wstring") THEN BoundOk(AfterPrefix(base, "wstring"))
        ELSE FALSE

\* Mutant: a path that is neither pkg/Type nor pkg/msg/Type is used as it is.
resolve_custom_type_strict(r, current_package) ==
    IF is_builtin_type(r) THEN None
    ELSE LET base == strip_array_suffix(r)
             segments == Split(base, "/")
         IN  IF Contains(base, "/")
             THEN IF Contains(base, "/msg/") THEN Some(base)
                  ELSE IF Len(segments) = 2
                       THEN Some(segments[1] \o "/msg/" \o segments[2])
                       ELSE Some(base)
             ELSE Some(current_package \o "/msg/" \o base)

resolve_custom_type(r, current_package) ==
    IF is_builtin_type(r) THEN None
    ELSE LET base == strip_array_suffix(r)
             segments == Split(base, "/")
         IN  IF Contains(base, "/")
             THEN IF Contains(base, "/msg/") THEN Some(base)
                  ELSE IF Len(segments) = 2
                       THEN Some(segments[1] \o "/msg/" \o segments[2])
                       ELSE None
             ELSE Some(current_package \o "/msg/" \o base)

\* Mutant: the package of the root of the flatten call.
PackageOfRoot(current_type) == Split(root, "/")[1]

\* current_type.split('/').next().unwrap_or("") (line 197)
PackageOf(current_type) == Split(current_type, "/")[1]

(***************************************************************************)
(* Values of Result<T> and of the idle flattening engine.                  *)
(***************************************************************************)
NoResult == [tag |-> "None", val |-> ""]
Ok(v) == [tag |-> "Ok", val |-> v]
Err(e) == [tag |-> "Err", val |-> e]

\* BTreeMap::new()
EmptyMap == [k \in {} |-> ""]

NoLine == [cur |-> "", tok |-> "", ref |-> None]

EngineIdle ==
    /\ pc = "idle"
    /\ mode = "single"
    /\ root = ""
    /\ stack = <<>>
    /\ visited = {}
    /\ flat = <<>>
    /\ order = <<>>
    /\ result = NoResult
    /\ keysLeft = <<>>
    /\ out = EmptyMap
    /\ bulk = NoResult
    /\ last = NoLine

(***************************************************************************)
(* SpecTok: the parser functions applied to one token.  The tokens are     *)
(* what split_whitespace can yield: non-empty, without whitespace.         *)
(***************************************************************************)
TokAlphabet == {"a", "/", "[", "]", "<", "=", "1"}

RECURSIVE StringsUpTo(_)
StringsUpTo(n) ==
    IF n = 0 THEN {""}
    ELSE LET shorter == StringsUpTo(n - 1)
         IN  shorter \cup {s \o c : s \in shorter, c \in TokAlphabet}

BaseNames ==
    Primitives \cup
    {"string<=40", "wstring<=1", "string<=256", "string<=", "wstring<=",
     "string<=4x", "stringy", "wstrings", "string<40",
     "Transform", "FloatingPointRange", "geometry_msgs/Transform",
     "geometry_msgs/msg/Transform", "a/b/c", "a/b/msg/c", "/Transform"}

SuffixAtoms == {"[]", "[3]", "[<=8]", "[<=]", "[x]", "[<=1x]", "["}

RECURSIVE SuffixRuns(_)
SuffixRuns(n) ==
    IF n = 0 THEN {""}
    ELSE LET shorter == SuffixRuns(n - 1)
         IN  shorter \cup {s \o x : s \in shorter, x \in SuffixAtoms}

Tokens ==
    (StringsUpTo(MaxTokLen) \ {""})
        \cup {b \o x : b \in BaseNames, x \in SuffixRuns(MaxSuffixes)}

EnclosingTypes == {"geometry_msgs/msg/TransformStamped", "a/msg/A"}

InitTok ==
    /\ raw \in Tokens
    /\ curType \in EnclosingTypes
    /\ tokCall = "none"
    /\ stripped = ""
    /\ builtin = FALSE
    /\ custom = None
    /\ index = EmptyMap
    /\ EngineIdle

TokStrip ==
    /\ tokCall = "none"
    /\ tokCall' = "strip_array_suffix"
    /\ stripped' = strip_array_suffix(raw)
    /\ UNCHANGED <<raw, curType, builtin, custom>>
    /\ UNCHANGED flatVars

TokIsBuiltin ==
    /\ tokCall = "none"
    /\ tokCall' = "is_builtin_type"
    /\ builtin' = is_builtin_type(raw)
    /\ UNCHANGED <<raw, curType, stripped, custom>>
    /\ UNCHANGED flatVars

\* lines 197 and 208-210: the token of a field line of curType
TokResolve ==
    /\ tokCall = "none"
    /\ tokCall' = "resolve_custom_type"
    /\ custom' = resolve_custom_type(raw, PackageOf(curType))
    /\ UNCHANGED <<raw, curType, stripped, builtin>>
    /\ UNCHANGED flatVars

NextTok == TokStrip \/ TokIsBuiltin \/ TokResolve

SpecTok == InitTok /\ [][NextTok]_vars

(***************************************************************************)
(* The array suffixes and bounded strings of the .msg grammar, as the      *)
(* documentation of strip_array_suffix and is_builtin_type states them:    *)
(* [], [N], [<=N] and string<=N, wstring<=N, N one or more ASCII digits.   *)
(***************************************************************************)
Number(s) == Len(s) > 0 /\ AllDigits(s)

ArraySuffix(x) ==
    \/ x = "[]"
    \/ /\ StartsWith(x, "[") /\ EndsWith(x, "]") /\ Len(x) > 2
       /\ Number(SubSeq(x, 2, Len(x) - 1))
    \/ /\ StartsWith(x, "[<=") /\ EndsWith(x, "]") /\ Len(x) > 4
       /\ Number(SubSeq(x, 4, Len(x) - 1))

\* s without its trailing array suffixes; a suffix at position 0 stays
RECURSIVE WithoutArraySuffixes(_)
WithoutArraySuffixes(s) ==
    LET cuts == {k \in 2..Len(s) : ArraySuffix(SubSeq(s, k, Len(s)))}
    IN  IF cuts = {} THEN s
        ELSE WithoutArraySuffixes(SubSeq(s, 1, (CHOOSE k \in cuts : TRUE) - 1))

\* the interior of the trailing bracket of s, when s has one
HasTrailingBracket(s) == EndsWith(s, "]") /\ RFind(s, "[") > 0
TrailingInterior(s) == SubSeq(s, RFind(s, "[") + 1, Len(s) - 1)

\* C8: every primitive name, with or without trailing array suffixes, is
\* Builtin; string<=N and wstring<=N are Builtin when N is one or more
\* digits; string<= with no digits is not Builtin.
C8_BuiltinDetection ==
    tokCall = "is_builtin_type" =>
        /\ WithoutArraySuffixes(raw) \in Primitives => builtin
        /\ (\E p \in {"string<=", "wstring<="} :
               StartsWith(raw, p) /\ Number(AfterPrefix(raw, p))) => builtin
        /\ raw = "string<=" => ~builtin

\* C9: strip_array_suffix removes every trailing [], [N], [<=N] and nothing
\* else: the result is a prefix of the input, a bracket at position 0
\* stays, and a trailing bracket whose interior is neither empty, digits
\* nor <= and digits is left untouched with everything before it.
C9_StripArraySuffix ==
    tokCall = "strip_array_suffix" =>
        /\ StartsWith(raw, stripped)
        /\ stripped = WithoutArraySuffixes(raw)
        /\ (HasTrailingBracket(raw) /\ ~ArraySuffix("[" \o TrailingInterior(raw) \o "]"))
               => stripped = raw

(***************************************************************************)
(* Flattening engine.                                                      *)
(***************************************************************************)
\* length of the separator line in the format string of flatten_inner
SepLen == 80

RECURSIVE Repeat(_, _)
Repeat(c, n) == IF n = 0 THEN "" ELSE c \o Repeat(c, n - 1)

\* the separator line
Separator == Repeat("=", SepLen)

\* [String]::join
RECURSIVE Join(_, _)
Join(blocks, sep) ==
    IF Len(blocks) = 0 THEN ""
    ELSE IF Len(blocks) = 1 THEN blocks[1]
    ELSE blocks[1] \o sep \o Join(Tail(blocks), sep)

\* byte order of the characters that occur in index keys
AsciiOrder ==
    "-./0123456789<=ABCDEFGHIJKLMNOPQRSTUVWXYZ[]_abcdefghijklmnopqrstuvwxyz"
Rank(c) == Find(AsciiOrder, c)

\* Ord for String: byte-wise lexicographic, a proper prefix comes first
RECURSIVE StrLessFrom(_, _, _)
StrLessFrom(a, b, i) ==
    IF i > Len(b) THEN FALSE
    ELSE IF i > Len(a) THEN TRUE
    ELSE IF Char(a, i) = Char(b, i) THEN StrLessFrom(a, b, i + 1)
    ELSE Rank(Char(a, i)) < Rank(Char(b, i))
StrLess(a, b) == StrLessFrom(a, b, 1)

\* Mutant: the keys in descending order.
KeysDescending(idx) ==
    [i \in 1..Cardinality(DOMAIN idx) |->
        CHOOSE x \in DOMAIN idx :
            Cardinality({y \in DOMAIN idx : StrLess(x, y)}) = i - 1]

\* BTreeMap::keys(): the keys in ascending order
Keys(idx) ==
    [i \in 1..Cardinality(DOMAIN idx) |->
        CHOOSE x \in DOMAIN idx :
            Cardinality({y \in DOMAIN idx : StrLess(y, x)}) = i - 1]

\* Mutant of resolve: a missing definition reads as an empty text.
resolve_or_default(idx, typename) ==
    IF typename \in DOMAIN idx THEN Ok(Trim(idx[typename])) ELSE Ok("")

\* resolve (lines 60-67); index[typename] is the content of the file
resolve(idx, typename) ==
    IF typename \in DOMAIN idx
    THEN Ok(Trim(idx[typename]))
    ELSE Err("Definition not found for: " \o typename)

\* lines 200-208: the raw type token of a line, "" for a line that is skipped
FieldToken(text_line) ==
    LET line == Trim(text_line)
        parts == SplitWhitespace(line)
    IN  IF line = "" \/ StartsWith(line, "#") THEN ""
        ELSE IF Len(parts) < 2 THEN ""
        ELSE parts[1]

\* lines 197 and 209-210: the type a line of current_type refers to
LineRef(current_type, text_line) ==
    LET typename == FieldToken(text_line)
    IN  IF typename = "" THEN None
        ELSE resolve_custom_type(typename, PackageOf(current_type))

\* Mutant: the visited set is not consulted.
ShouldVisitAlways(ref, vis) == ref.some

\* Mutant: the test of the visited set is inverted.
ShouldVisitInverted(ref, vis) == ref.some /\ ref.val \in vis

\* lines 209 and 213: a custom reference not yet visited is followed
ShouldVisit(ref, vis) == ref.some /\ ref.val \notin vis

\* Mutant of the block format: the header shows the name as it is.
BlockFullName(nested_type, nested_def) ==
    Separator \o "\nMSG: " \o nested_type \o "\n" \o Trim(nested_def)

\* lines 212 and 215-219: the block of a nested type
Block(nested_type, nested_def) ==
    Separator \o "\nMSG: " \o Replace(nested_type, "/msg/", "/")
        \o "\n" \o Trim(nested_def)

\* a call of flatten_inner(current_type, definition, ..): its loop position
Frame(current_type, definition) ==
    [cur |-> current_type, lines |-> Lines(definition), i |-> 1]

\* Mutant: the nested type is explored after the enclosing messages.
PushDeferred(stk, frame) == <<frame>> \o stk

\* line 220: the recursive call runs before the caller's next line
Push(stk, frame) == Append(stk, frame)

\* An error leaves flatten (and generate_all_flattened) through `?`:
\* the locals are dropped and only the error is returned.
Fail(m, msg) ==
    /\ pc' = "done"
    /\ result' = Err(msg)
    /\ stack' = <<>>
    /\ flat' = <<>>
    /\ keysLeft' = <<>>
    /\ out' = EmptyMap
    /\ bulk' = IF m = "all" THEN Err(msg) ELSE NoResult

\* flatten, lines 133-137, up to the first iteration of flatten_inner
StartFlatten(m, r) ==
    LET definition == resolve(index, r)
    IN  /\ root' = r
        /\ last' = NoLine
        /\ IF definition.tag = "Err"
           THEN /\ Fail(m, definition.val)
                /\ order' = <<>>
                /\ visited' = {}
           ELSE /\ pc' = "flatten"
                /\ flat' = <<definition.val>>
                /\ order' = <<r>>
                /\ visited' = {r}
                /\ stack' = <<Frame(r, definition.val)>>
                /\ result' = NoResult
                /\ IF m = "all"
                   THEN UNCHANGED <<keysLeft, out, bulk>>
                   ELSE keysLeft' = <<>> /\ out' = EmptyMap /\ bulk' = NoResult

\* &self is borrowed by one call at a time
Callable == pc = "idle"

\* pub fn flatten(&self, root_type)
FlattenCall(r) ==
    /\ Callable
    /\ mode' = "single"
    /\ StartFlatten("single", r)
    /\ UNCHANGED <<index, tokVars>>

\* one iteration of the loop of flatten_inner (lines 199-223)
Step ==
    /\ pc = "flatten"
    /\ stack # <<>>
    /\ stack[Len(stack)].i <= Len(stack[Len(stack)].lines)
    /\ LET f == stack[Len(stack)]
           ref == LineRef(f.cur, f.lines[f.i])
           advanced == [stack EXCEPT ![Len(stack)].i = f.i + 1]
           nested_def == resolve(index, ref.val)
       IN  /\ last' = [cur |-> f.cur, tok |-> FieldToken(f.lines[f.i]), ref |-> ref]
           /\ IF ShouldVisit(ref, visited)
              THEN IF nested_def.tag = "Err"
                   THEN /\ Fail(mode, nested_def.val)
                        /\ UNCHANGED <<order, visited>>
                   ELSE /\ flat' = Append(flat, Block(ref.val, nested_def.val))
                        /\ order' = Append(order, ref.val)
                        /\ visited' = visited \cup {ref.val}
                        /\ stack' = Push(advanced, Frame(ref.val, nested_def.val))
                        /\ UNCHANGED <<pc, result, keysLeft, out, bulk>>
              ELSE /\ stack' = advanced
                   /\ UNCHANGED <<pc, result, keysLeft, out, bulk, flat, order, visited>>
    /\ UNCHANGED <<index, mode, root, tokVars>>

\* the end of the loop: flatten_inner returns Ok(()) (line 225); the
\* outermost return ends flatten (line 138) and, under
\* generate_all_flattened, inserts the text (line 242)
Return ==
    /\ pc = "flatten"
    /\ stack # <<>>
    /\ stack[Len(stack)].i > Len(stack[Len(stack)].lines)
    /\ stack' = SubSeq(stack, 1, Len(stack) - 1)
    /\ IF Len(stack) > 1
       THEN UNCHANGED <<pc, result, keysLeft, out, bulk>>
       ELSE /\ result' = Ok(Join(flat, "\n\n"))
            /\ IF mode = "all"
               THEN /\ pc' = "loop"
                    /\ out' = [k \in DOMAIN out \cup {root} |->
                                  IF k = root THEN Join(flat, "\n\n") ELSE out[k]]
                    /\ keysLeft' = Tail(keysLeft)
                    /\ UNCHANGED bulk
               ELSE /\ pc' = "done"
                    /\ UNCHANGED <<keysLeft, out, bulk>>
    /\ UNCHANGED <<index, mode, root, visited, flat, order, last, tokVars>>

\* pub fn generate_all_flattened: lines 238-239
GenerateAllFlattened ==
    /\ Callable
    /\ mode' = "all"
    /\ pc' = "loop"
    /\ keysLeft' = Keys(index)
    /\ out' = EmptyMap
    /\ bulk' = NoResult
    /\ result' = NoResult
    /\ root' = ""
    /\ stack' = <<>>
    /\ visited' = {}
    /\ flat' = <<>>
    /\ order' = <<>>
    /\ last' = NoLine
    /\ UNCHANGED <<index, tokVars>>

\* the loop of generate_all_flattened: the next key (line 242) or Ok(out)
LoopNext ==
    /\ pc = "loop"
    /\ IF keysLeft = <<>>
       THEN /\ pc' = "done"
            /\ bulk' = Ok(out)
            /\ UNCHANGED <<root, stack, visited, flat, order, result, keysLeft, out, last>>
       ELSE StartFlatten("all", Head(keysLeft))
    /\ UNCHANGED <<index, mode, tokVars>>

\* the loop of generate_all_raw (lines 229-233), fail-fast
RECURSIVE RawLoop(_, _, _)
RawLoop(idx, keys, acc) ==
    IF keys = <<>> THEN Ok(acc)
    ELSE LET r == resolve(idx, Head(keys))
         IN  IF r.tag = "Err" THEN Err(r.val)
             ELSE RawLoop(idx, Tail(keys),
                          [k \in DOMAIN acc \cup {Head(keys)} |->
                              IF k = Head(keys) THEN r.val ELSE acc[k]])

\* pub fn generate_all_raw
GenerateAllRaw ==
    /\ Callable
    /\ mode' = "raw"
    /\ pc' = "done"
    /\ bulk' = RawLoop(index, Keys(index), EmptyMap)
    /\ keysLeft' = <<>>
    /\ out' = EmptyMap
    /\ result' = NoResult
    /\ root' = ""
    /\ stack' = <<>>
    /\ visited' = {}
    /\ flat' = <<>>
    /\ order' = <<>>
    /\ last' = NoLine
    /\ UNCHANGED <<index, tokVars>>

\* pub fn resolve(&self, typename)
ResolveCall(t) ==
    /\ Callable
    /\ mode' = "resolve"
    /\ pc' = "done"
    /\ root' = t
    /\ result' = resolve(index, t)
    /\ keysLeft' = <<>>
    /\ out' = EmptyMap
    /\ bulk' = NoResult
    /\ stack' = <<>>
    /\ visited' = {}
    /\ flat' = <<>>
    /\ order' = <<>>
    /\ last' = NoLine
    /\ UNCHANGED <<index, tokVars>>

(***************************************************************************)
(* The indexes the engine is run on.  An index maps each registered key    *)
(* package/msg/Type (register_msg_dir, line 46) to the content of its      *)
(* file.                                                                   *)
(***************************************************************************)
\* the index of the end-to-end scenario (tests::test_register_and_flatten_tf)
TFIndex ==
    ("tf2_msgs/msg/TFMessage" :> "geometry_msgs/TransformStamped[] transforms\n")
    @@ ("geometry_msgs/msg/TransformStamped" :>
          "# This expresses a transform\n\nstd_msgs/Header header\n\nstring child_frame_id\n\nTransform transform\n")
    @@ ("std_msgs/msg/Header" :> "builtin_interfaces/Time stamp\n\nstring frame_id\n")
    @@ ("builtin_interfaces/msg/Time" :> "int32 sec\nuint32 nanosec\n")
    @@ ("geometry_msgs/msg/Transform" :> "Vector3 translation\nQuaternion rotation\n")
    @@ ("geometry_msgs/msg/Vector3" :> "float64 x\nfloat64 y\nfloat64 z\n")
    @@ ("geometry_msgs/msg/Quaternion" :>
          "float64 x 0\nfloat64 y 0\nfloat64 z 0\nfloat64 w 1\n")

\* a root with two fields of type std_msgs/Header
HeaderTwiceIndex ==
    ("nav_msgs/msg/Pair" :> "std_msgs/Header first\nstd_msgs/Header second\n")
    @@ ("std_msgs/msg/Header" :> "builtin_interfaces/Time stamp\nstring frame_id\n")
    @@ ("builtin_interfaces/msg/Time" :> "int32 sec\nuint32 nanosec\n")

\* Generated indexes: a/msg/A holds up to MaxLines field lines, a/msg/B
\* at most one (or is missing), b/msg/A refers back to a/msg/A.
MaxLines == 2

LineTemplates == {"B x", "A[] y", "b/A z", "b/msg/C[3] w", "b/X q"}

RECURSIVE Texts(_)
Texts(n) ==
    IF n = 0 THEN {""}
    ELSE LET shorter == Texts(n - 1)
         IN  shorter \cup {t \o l \o "\n" : t \in shorter, l \in LineTemplates}

FixedPart ==
    ("b/msg/A" :> "a/A back\nC c\n") @@ ("b/msg/C" :> "int32 n\n")

GenIndexes ==
    {("a/msg/A" :> ta) @@ FixedPart : ta \in Texts(MaxLines)}
        \cup {("a/msg/A" :> ta) @@ ("a/msg/B" :> tb) @@ FixedPart :
                 ta \in Texts(MaxLines), tb \in Texts(1)}

\* Indexes with two arbitrary lines, well-formed or not, in the root.
ProbeLines ==
    {"Transform t", "geometry_msgs/Transform t", "geometry_msgs/msg/Transform t",
     "Transform[<=3] t", "string<=10[] names", "uint8 FOO=1", "Missing m",
     "int32[x] n", "Transform[ t", "a/b/c q", "a/b/msg/c q", "/Transform t",
     "Transform", "", "   ", "# Transform t", "  Transform\tt  \r"}

ProbeIndexes ==
    {("geometry_msgs/msg/Probe" :> (l1 \o "\n" \o l2))
        @@ ("geometry_msgs/msg/Transform" :> "\nVector3 translation\n\n")
        @@ ("geometry_msgs/msg/Vector3" :> "float64 x") :
            l1 \in ProbeLines, l2 \in ProbeLines}

\* two keys that fail with different errors
TwoMissingIndex ==
    ("a/msg/A" :> "X x\n") @@ ("b/msg/B" :> "Y[] y\n") @@ ("c/msg/C" :> "bool ok\n")

Indexes ==
    {TFIndex, HeaderTwiceIndex, TwoMissingIndex} \cup GenIndexes \cup ProbeIndexes

\* the type names handed to flatten and resolve
Roots == DOMAIN index \cup {"nonexistent/msg/Foo"}

TokIdle ==
    /\ raw = ""
    /\ curType = ""
    /\ tokCall = "none"
    /\ stripped = ""
    /\ builtin = FALSE
    /\ custom = None

Init ==
    /\ index \in Indexes
    /\ EngineIdle
    /\ TokIdle

\* The caller is done with the returned value: the engine (index and
\* nothing else) is ready for the next call.
Drop ==
    /\ pc = "done"
    /\ pc' = "idle"
    /\ mode' = "single"
    /\ root' = ""
    /\ stack' = <<>>
    /\ visited' = {}
    /\ flat' = <<>>
    /\ order' = <<>>
    /\ result' = NoResult
    /\ keysLeft' = <<>>
    /\ out' = EmptyMap
    /\ bulk' = NoResult
    /\ last' = NoLine
    /\ UNCHANGED <<index, tokVars>>

Next ==
    \/ \E r \in Roots : FlattenCall(r)
    \/ Step
    \/ Return
    \/ GenerateAllFlattened
    \/ LoopNext
    \/ GenerateAllRaw
    \/ \E t \in Roots : ResolveCall(t)
    \/ Drop

Spec == Init /\ [][Next]_vars

(***************************************************************************)
(* The reference graph of an index, stated without the traversal: the      *)
(* custom field references of each text, in declaration order.             *)
(***************************************************************************)
Range(seq) == {seq[i] : i \in 1..Len(seq)}

NoDuplicates(seq) == \A i, j \in 1..Len(seq) : i # j => seq[i] # seq[j]

IsSome(r) == r.some

\* the types the fields of t refer to, one entry per referencing line
FieldRefs(idx, t) ==
    IF t \notin DOMAIN idx THEN <<>>
    ELSE LET ls == Lines(Trim(idx[t]))
             refs == SelectSeq([i \in 1..Len(ls) |-> LineRef(t, ls[i])], IsSome)
         IN  [i \in 1..Len(refs) |-> refs[i].val]

\* the graph of idx: every type met from r, with its references
RECURSIVE GraphFrom(_, _, _)
GraphFrom(idx, todo, g) ==
    IF todo = {} THEN g
    ELSE LET t == CHOOSE x \in todo : TRUE
             refs == FieldRefs(idx, t)
             g2 == [x \in DOMAIN g \cup {t} |-> IF x = t THEN refs ELSE g[x]]
         IN  GraphFrom(idx, (todo \cup Range(refs)) \ DOMAIN g2, g2)

\* the types reachable from r through custom field references, r included
Reachable(idx, r) == DOMAIN GraphFrom(idx, {r}, EmptyMap)

\* the name a block header shows for a type with one /msg/ segment
Shown(t) == LET k == Find(t, "/msg/")
            IN  IF k = 0 THEN t
                ELSE SubSeq(t, 1, k) \o SubSeq(t, k + 5, Len(t))

\* the header line of a nested block: its second line
HeaderLine(block) == Lines(block)[2]

\* depth-first first-discovery order: the next type emitted after seq is
\* the first not yet emitted reference of the latest emitted type that
\* still has one
Pending(g, seq, j) ==
    SelectSeq(g[seq[j]], LAMBDA x : x \notin Range(seq))

NextTarget(g, seq) ==
    LET J == {j \in 1..Len(seq) : Pending(g, seq, j) # <<>>}
        top == CHOOSE j \in J : \A k \in J : k <= j
    IN  IF J = {} THEN None ELSE Some(Pending(g, seq, top)[1])

IsFirstDiscoveryOrder(g, seq) ==
    \A i \in 2..Len(seq) : NextTarget(g, SubSeq(seq, 1, i - 1)) = Some(seq[i])

FlattenOk == pc = "done" /\ mode = "single" /\ result.tag = "Ok"
FlattenErr == pc = "done" /\ mode = "single" /\ result.tag = "Err"

\* C1: a successful flatten(root) emits the root first and then exactly
\* one block for each type reachable from the root, the root excepted: no
\* reachable type is missing, no other type appears, none appears twice.
C1_OneBlockPerReachableType ==
    FlattenOk =>
        /\ Len(flat) = Len(order)
        /\ flat[1] = Trim(index[root])
        /\ order[1] = root
        /\ NoDuplicates(order)
        /\ Range(order) = Reachable(index, root)
        /\ \A i \in 2..Len(flat) : HeaderLine(flat[i]) = "MSG: " \o Shown(order[i])
        /\ NoDuplicates([i \in 1..(Len(flat) - 1) |-> HeaderLine(flat[i + 1])])

\* std_msgs/Header referenced by two fields is emitted once
C1_Witness ==
    /\ FlattenOk
    /\ index = HeaderTwiceIndex
    /\ root = "nav_msgs/msg/Pair"
    /\ order = <<"nav_msgs/msg/Pair", "std_msgs/msg/Header", "builtin_interfaces/msg/Time">>

TFOrder ==
    <<"tf2_msgs/msg/TFMessage", "geometry_msgs/msg/TransformStamped",
      "std_msgs/msg/Header", "builtin_interfaces/msg/Time",
      "geometry_msgs/msg/Transform", "geometry_msgs/msg/Vector3",
      "geometry_msgs/msg/Quaternion">>

\* C2: the blocks appear in depth-first pre-order of first discovery,
\* fields followed in declaration order, at every moment of the traversal;
\* for the TFMessage index the blocks are TransformStamped, Header, Time,
\* Transform, Vector3, Quaternion.
C2_DepthFirstDiscoveryOrder ==
    /\ (mode = "single" /\ order # <<>>) =>
           IsFirstDiscoveryOrder(GraphFrom(index, {root}, EmptyMap), order)
    /\ (FlattenOk /\ index = TFIndex /\ root = "tf2_msgs/msg/TFMessage") =>
           /\ order = TFOrder
           /\ \A i \in 2..Len(TFOrder) : HeaderLine(flat[i]) = "MSG: " \o Shown(TFOrder[i])

\* a/msg/B and what it refers to come before the second field of a/msg/A
C2_Witness ==
    /\ FlattenOk
    /\ root = "a/msg/A"
    /\ order = <<"a/msg/A", "a/msg/B", "b/msg/A", "b/msg/C">>
    /\ index["a/msg/A"] = "B x\nb/msg/C[3] w\n"

\* What is left to do for a running flatten: for each frame its lines
\* not yet examined and its return, and for each type not yet visited a
\* bound on the frame it would add.
RECURSIVE FrameWork(_)
FrameWork(stk) ==
    IF stk = <<>> THEN 0
    ELSE (Len(Head(stk).lines) + 2 - Head(stk).i) + FrameWork(Tail(stk))

RECURSIVE UnvisitedWork(_)
UnvisitedWork(S) ==
    IF S = {} THEN 0
    ELSE LET t == CHOOSE x \in S : TRUE
         IN  (Len(index[t]) + 3) + UnvisitedWork(S \ {t})

Work == FrameWork(stack) + UnvisitedWork(DOMAIN index \ visited)

EmittedOnce ==
    /\ NoDuplicates(order)
    /\ \A i \in 2..Len(order) : order[i] # root
    /\ Len(flat) <= Cardinality(DOMAIN index)
    /\ Len(stack) <= Cardinality(DOMAIN index)

\* C3: flatten terminates on every index, cyclic or not: every step of
\* the traversal strictly decreases Work, a natural number; each type is
\* emitted at most once and the root never again after the first block.
C3_CycleSafe ==
    /\ [](mode \in {"single", "all"} => EmittedOnce)
    /\ [][(pc = "flatten" /\ pc' = "flatten") => Work' < Work]_vars

\* a finished flatten of a/msg/A <-> a/msg/B, a/msg/A being the root
C3_Witness ==
    /\ FlattenOk
    /\ root = "a/msg/A"
    /\ index["a/msg/A"] = "B x\nA[] y\n"
    /\ "a/msg/B" \in DOMAIN index
    /\ index["a/msg/B"] = "A[] y\n"
    /\ order = <<"a/msg/A", "a/msg/B">>
    /\ Len(flat) = 2

\* the error message of resolve for a type that is not in the index
NotFound(t) == "Definition not found for: " \o t

RECURSIVE NestedBlocks(_, _, _)
NestedBlocks(idx, seq, i) ==
    IF i > Len(seq) THEN ""
    ELSE "\n\n"
         \o "================================================================================"
         \o "\n" \o "MSG: " \o Shown(seq[i])
         \o "\n" \o Trim(idx[seq[i]])
         \o NestedBlocks(idx, seq, i + 1)

FlattenedText(idx, seq) == Trim(idx[seq[1]]) \o NestedBlocks(idx, seq, 2)

\* C6: the flattened text is the trimmed root text, bare, and then for
\* every later block a blank line, a line of exactly 80 '=', the line
\* MSG: package/TypeName and the trimmed text of the type; nothing follows
\* the last block.
C6_FlattenedTextFormat ==
    /\ Len("================================================================================") = 80
    /\ FlattenOk =>
          /\ result.val = FlattenedText(index, order)
          /\ Len(flat) = Len(order)

\* the flattened text of tf2_msgs/msg/TFMessage: seven blocks
C6_Witness ==
    /\ FlattenOk
    /\ index = TFIndex
    /\ root = "tf2_msgs/msg/TFMessage"
    /\ Len(flat) = 7

\* the first /-segment of a fully-qualified name
FirstSegment(t) ==
    LET k == Find(t, "/") IN IF k = 0 THEN t ELSE SubSeq(t, 1, k - 1)

\* the number of /-segments of a token
SegmentCount(b) == Cardinality({i \in 1..Len(b) : Char(b, i) = "/"}) + 1

\* the qualification of a custom base name inside package pkg
Qualified(b, pkg) ==
    IF ~Contains(b, "/") THEN Some(pkg \o "/msg/" \o b)
    ELSE IF Contains(b, "/msg/") THEN Some(b)
    ELSE IF SegmentCount(b) = 2
         THEN Some(SubSeq(b, 1, Find(b, "/") - 1) \o "/msg/"
                   \o SubSeq(b, Find(b, "/") + 1, Len(b)))
         ELSE None

Examined == mode \in {"single", "all"} /\ last.tok # ""

\* C7: the custom type token of a field line, its array suffixes
\* stripped, is qualified with the package of the message whose text holds
\* the line: Name gives package/msg/Name, pkg/Name gives pkg/msg/Name, a
\* token with /msg/ is kept, any other segment count gives no reference.
C7_Qualification ==
    /\ (Examined /\ ~is_builtin_type(last.tok)) =>
           last.ref = Qualified(strip_array_suffix(last.tok), FirstSegment(last.cur))
    /\ (Examined /\ is_builtin_type(last.tok)) => last.ref = None
    /\ (Examined /\ last.tok \in {"Transform", "geometry_msgs/Transform",
                                  "geometry_msgs/msg/Transform"}
                 /\ FirstSegment(last.cur) = "geometry_msgs") =>
           last.ref = Some("geometry_msgs/msg/Transform")

\* Transform inside geometry_msgs/msg/TransformStamped, root in tf2_msgs
C7_Witness ==
    /\ Examined
    /\ root = "tf2_msgs/msg/TFMessage"
    /\ last.cur = "geometry_msgs/msg/TransformStamped"
    /\ last.tok = "Transform"
    /\ last.ref = Some("geometry_msgs/msg/Transform")

(***************************************************************************)
(* Well-formed and malformed field lines.                                  *)
(***************************************************************************)
IsNameChar(c) == Rank(c) > 0 /\ c \notin {"-", ".", "/", "<", "=", "[", "]"}

\* a package or type name: letters, digits, underscores
IsName(w) == Len(w) > 0 /\ \A i \in 1..Len(w) : IsNameChar(Char(w, i))

\* a type token of the .msg grammar: a primitive, a bounded string or a
\* type name (Name, pkg/Name, pkg/msg/Name), then array suffixes
WellFormedToken(tok) ==
    LET b == WithoutArraySuffixes(tok)
        segs == Split(b, "/")
    IN  \/ b \in Primitives
        \/ \E p \in {"string<=", "wstring<="} :
               StartsWith(b, p) /\ Number(AfterPrefix(b, p))
        \/ Len(segs) = 1 /\ IsName(segs[1])
        \/ Len(segs) = 2 /\ IsName(segs[1]) /\ IsName(segs[2])
        \/ Len(segs) = 3 /\ IsName(segs[1]) /\ segs[2] = "msg" /\ IsName(segs[3])

Words(text_line) == SplitWhitespace(Trim(text_line))

IsBlankOrComment(text_line) ==
    Trim(text_line) = "" \/ StartsWith(Trim(text_line), "#")

\* a field line: type token, field name, optional default
WellFormedLine(text_line) ==
    ~IsBlankOrComment(text_line)
        /\ Len(Words(text_line)) >= 2
        /\ WellFormedToken(Words(text_line)[1])

MalformedLine(text_line) ==
    ~IsBlankOrComment(text_line) /\ ~WellFormedLine(text_line)

TextLines(idx, t) == Lines(Trim(idx[t]))

\* every reference of a well-formed line of every text of idx resolves
WellFormedReferencesResolve(idx) ==
    \A t \in DOMAIN idx : \A i \in 1..Len(TextLines(idx, t)) :
        LET l == TextLines(idx, t)[i]
            ref == LineRef(t, l)
        IN  (WellFormedLine(l) /\ ref.some) => ref.val \in DOMAIN idx

\* the types the well-formed lines of idx refer to
WellFormedTargets(idx) ==
    UNION {{LineRef(t, l).val : l \in {x \in Range(TextLines(idx, t)) : WellFormedLine(x)}} :
              t \in DOMAIN idx}

UnresolvablePath(tok) ==
    LET b == strip_array_suffix(tok)
    IN  Contains(b, "/") /\ ~Contains(b, "/msg/") /\ SegmentCount(b) # 2

PassedOver(text_line) ==
    \/ IsBlankOrComment(text_line)
    \/ Len(Words(text_line)) < 2
    \/ UnresolvablePath(Words(text_line)[1])

\* every line of idx that is not passed over and not builtin refers to a
\* type of idx
OtherReferencesResolve(idx) ==
    \A t \in DOMAIN idx : \A i \in 1..Len(TextLines(idx, t)) :
        LET l == TextLines(idx, t)[i]
        IN  (~PassedOver(l) /\ ~is_builtin_type(Words(l)[1])) =>
                /\ Qualified(strip_array_suffix(Words(l)[1]), FirstSegment(t)).some
                /\ Qualified(strip_array_suffix(Words(l)[1]), FirstSegment(t)).val
                       \in DOMAIN idx

AtLine == pc = "flatten" /\ stack # <<>>
             /\ stack[Len(stack)].i <= Len(stack[Len(stack)].lines)
CurrentLine == stack[Len(stack)].lines[stack[Len(stack)].i]

RECURSIVE Discover(_, _, _)
Discover(g, idx, seq) ==
    LET next == NextTarget(g, seq)
    IN  IF ~next.some THEN Ok(seq)
        ELSE IF next.val \notin DOMAIN idx THEN Err(NotFound(next.val))
        ELSE Discover(g, idx, Append(seq, next.val))

ExpectedFlatten(idx, r) ==
    IF r \notin DOMAIN idx THEN Err(NotFound(r))
    ELSE LET found == Discover(GraphFrom(idx, {r}, EmptyMap), idx, <<r>>)
         IN  IF found.tag = "Err" THEN found
             ELSE Ok(FlattenedText(idx, found.val))

Ascending(seq) == \A i, j \in 1..Len(seq) : i < j => StrLess(seq[i], seq[j])

BulkDone(m) == pc = "done" /\ mode = m

\* the result generate_all_flattened must give on idx
ExpectedAll(idx) ==
    LET each == [k \in DOMAIN idx |-> ExpectedFlatten(idx, k)]
        failing == {k \in DOMAIN idx : each[k].tag = "Err"}
        first == CHOOSE k \in failing : \A k2 \in failing : k2 = k \/ StrLess(k, k2)
    IN  IF failing = {} THEN Ok([k \in DOMAIN idx |-> each[k].val])
        ELSE Err(each[first].val)

====
